---------------------------- MODULE Spec2Model ----------------------------
(***************************************************************************)
(* A model of new_database_maker.py: the start-up block that keeps the     *)
(* shared datasets `times` and `spatial_coordinates`, the deletion of the  *)
(* shot groups to overwrite, the split of the shots into batches, and the  *)
(* main loop: SQL phases, the fetch/transform pipeline, the crash check    *)
(* and the write of the time-based signals.                                *)
(*                                                                         *)
(* The HDF5 file is the variable final_data: its top-level datasets and    *)
(* its groups, each group a function from dataset names to values.  The    *)
(* external services (the SQL database, the signal fetches) are inputs     *)
(* drawn with \E from small sets.                                          *)
(***************************************************************************)
EXTENDS Integers, Sequences, FiniteSets, TLC

VARIABLES
    cfg,              \* the loaded configuration (line 53), never changed
    db,               \* the SQL database: its three tables, never changed
    environ,          \* os.environ, the three thread variables
    all_shots,        \* line 124; <<>> before the shots are loaded
    final_data,       \* the output file: [top |-> ..., groups |-> ...]
    subshots,         \* line 161-169
    which_shot,       \* index of the current batch in subshots (1-based)
    records,          \* the records of the last pipeline computation
    computed,         \* the compute calls made: <<mode, numparts, batch>>
    submitted,        \* the calls of submit_single_run: <<file, lo, hi>>
    oplog,            \* the queries, computations and writes made, in order
    pc                \* the position of the script

vars == <<cfg, db, environ, all_shots, final_data, subshots, which_shot, records,
          computed, submitted, oplog, pc>>

---------------------------------------------------------------------------
(* Bounds of the model.                                                    *)

\* the longest shot list of a configuration
MaxShots == 3
\* the largest max_shots_per_run
MaxPerRun == 2
\* the largest num_processes
MaxProcs == 2
\* the largest tmin / tmax of a configuration
MaxT == 2
\* the largest num_x_points of a configuration
MaxX == 2
\* the most rows a gas or log query returns
MaxRows == 2

\* the shot numbers of the model
ShotIds == {1, 2}

---------------------------------------------------------------------------
(* Generic helpers.                                                        *)

Range(s) == {s[i] : i \in DOMAIN s}

RECURSIVE SeqsUpTo(_, _)
\* all sequences over S of length at most n
SeqsUpTo(S, n) ==
    IF n = 0 THEN {<<>>}
    ELSE LET shorter == SeqsUpTo(S, n - 1)
         IN  shorter \cup {Append(s, x) : s \in {t \in shorter : Len(t) = n - 1}, x \in S}

RECURSIVE Flatten(_)
Flatten(ss) == IF ss = <<>> THEN <<>> ELSE Head(ss) \o Flatten(Tail(ss))

SetMin(S) == CHOOSE x \in S : \A y \in S : x <= y

\* d with key k set to v (a dict assignment)
Put(d, k, v) == [n \in DOMAIN d \cup {k} |-> IF n = k THEN v ELSE d[n]]

\* d without key k (del d[k])
Del(d, k) == [n \in DOMAIN d \ {k} |-> d[n]]

EmptyDict == [n \in {} |-> 0]

Digit == <<"0", "1", "2", "3", "4", "5", "6", "7", "8", "9">>

RECURSIVE Str(_)
\* str(n) of a non-negative integer
Str(n) == IF n < 10 THEN Digit[n + 1] ELSE Str(n \div 10) \o Digit[(n % 10) + 1]

---------------------------------------------------------------------------
(* The grids of the start-up block.                                        *)

RECURSIVE Gcd(_, _)
Gcd(a, b) == IF b = 0 THEN a ELSE Gcd(b, a % b)

\* the exact rational i/d, as a reduced fraction <<numerator, denominator>>
Frac(i, d) == IF i = 0 THEN <<0, 1>> ELSE <<i \div Gcd(i, d), d \div Gcd(i, d)>>

\* np.arange(tmin, tmax, time_step) for time_step > 0: half-open
ArangeLen(tmin, tmax, step) ==
    IF tmax <= tmin THEN 0 ELSE ((tmax - tmin) + step - 1) \div step

Arange(tmin, tmax, step) ==
    [i \in 1 .. ArangeLen(tmin, tmax, step) |-> tmin + (i - 1) * step]

\* np.linspace(0, 1, n): n evenly spaced points, both ends included
Linspace01(n) ==
    [i \in 1 .. n |-> IF n = 1 THEN Frac(0, 1) ELSE Frac(i - 1, n - 1)]

standard_x == Linspace01(cfg.num_x_points)

standard_times == Arange(cfg.tmin, cfg.tmax, cfg.time_step)

\* np.all(a == b) of two one-dimensional arrays.  numpy broadcasts a
\* length-1 operand against the other; shapes that do not broadcast make
\* the comparison fail (a scalar False, or an exception in later numpy
\* versions): either way the assertion does not pass.
NpAllEqual(a, b) ==
    IF Len(a) = Len(b) THEN \A i \in 1 .. Len(a) : a[i] = b[i]
    ELSE IF Len(a) = 1 THEN \A i \in 1 .. Len(b) : a[1] = b[i]
    ELSE IF Len(b) = 1 THEN \A i \in 1 .. Len(a) : a[i] = b[1]
    ELSE FALSE

---------------------------------------------------------------------------
(* The configuration-derived lists.                                        *)

\* needed_sigs (lines 68-109) for a configuration that selects calibrated
\* gas signals and EFIT profile signals; the other signal lists are empty
\* and the include_* switches of lines 81-104 are off.
NeededOfType(c, efit_type) ==
    [i \in 1 .. Len(c.efit_profile_sig_names) |->
        c.efit_profile_sig_names[i] \o "_" \o efit_type]

RECURSIVE NeededEfit(_, _)
NeededEfit(c, types) ==
    IF types = <<>> THEN <<>>
    ELSE NeededOfType(c, Head(types)) \o NeededEfit(c, Tail(types))

NeededSigs(c) == c.gas_cal_sig_names \o NeededEfit(c, c.efit_types)

needed_sigs == NeededSigs(cfg)

RECURSIVE InsertDesc(_, _)
\* x put into the descending sequence s
InsertDesc(x, s) ==
    IF s = <<>> THEN <<x>>
    ELSE IF x >= Head(s) THEN <<x>> \o s
    ELSE <<Head(s)>> \o InsertDesc(x, Tail(s))

RECURSIVE SortedReverse(_)
\* sorted(s, reverse=True)
SortedReverse(s) ==
    IF s = <<>> THEN <<>> ELSE InsertDesc(Head(s), SortedReverse(Tail(s)))

\* s[a:b] of Python: 0-based, half-open
Slice(s, a, b) == SubSeq(s, a + 1, b)

Min2(a, b) == IF a <= b THEN a ELSE b

\* num_files without the extra batch of line 165
NumFilesFloor(shots, m) == Len(shots) \div m

\* num_files (lines 162-165)
NumFiles(shots, m) ==
    (Len(shots) \div m) + (IF Len(shots) % m # 0 THEN 1 ELSE 0)

\* subshots (lines 167-169)
Subshots(shots, m) ==
    [i \in 1 .. NumFiles(shots, m) |->
        Slice(shots, (i - 1) * m, Min2(i * m, Len(shots)))]

---------------------------------------------------------------------------
(* The output file.                                                        *)

HasGroup(fd, g) == g \in DOMAIN fd.groups

\* final_data.require_group(g)
RequireGroup(fd, g) ==
    IF HasGroup(fd, g) THEN fd
    ELSE [fd EXCEPT !.groups = Put(fd.groups, g, EmptyDict)]

\* del final_data[g]
DelGroup(fd, g) == [fd EXCEPT !.groups = Del(fd.groups, g)]

\* final_data[g][name] = v, for a name the group does not hold yet
SetDataset(fd, g, name, v) ==
    [fd EXCEPT !.groups = Put(fd.groups, g, Put(fd.groups[g], name, v))]

\* del final_data[g][name]
DelDataset(fd, g, name) ==
    [fd EXCEPT !.groups = Put(fd.groups, g, Del(fd.groups[g], name))]

HasDataset(fd, g, name) == HasGroup(fd, g) /\ name \in DOMAIN fd.groups[g]

---------------------------------------------------------------------------
(* Lines 113-124: the thread variables and the shot list.                  *)

ThreadVars == {"MKL_NUM_THREADS", "NUMEXPR_NUM_THREADS", "OMP_NUM_THREADS"}

SetThreadEnv(env, c) ==
    IF c.num_processes > 1 THEN [v \in ThreadVars |-> "1"] ELSE env

Configure ==
    /\ pc = "configure"
    /\ environ' = SetThreadEnv(environ, cfg)
    /\ all_shots' = SortedReverse(cfg.shots)
    /\ pc' = "startup"
    /\ UNCHANGED <<cfg, db, final_data, subshots, which_shot, records, computed,
                   submitted, oplog>>

---------------------------------------------------------------------------
(* Lines 144-153: the shared datasets.                                     *)

\* one dataset of the start-up block: checked when present, created when
\* absent.  [file, ok]; ok is FALSE when the assertion fails.
SharedDataset(fd, name, grid) ==
    IF name \in DOMAIN fd.top
    THEN [file |-> fd, ok |-> NpAllEqual(fd.top[name], grid)]
    ELSE [file |-> [fd EXCEPT !.top = Put(fd.top, name, grid)], ok |-> TRUE]

\* the whole block: an assertion failure ends the script, and what was
\* written before it stays in the file (the with block closes the file)
StartupBlock(fd) ==
    LET t == SharedDataset(fd, "times", standard_times)
    IN  IF ~t.ok THEN t
        ELSE SharedDataset(t.file, "spatial_coordinates", standard_x)

Startup ==
    /\ pc = "startup"
    /\ LET r == StartupBlock(final_data)
       IN  /\ final_data' = r.file
           /\ pc' = IF r.ok THEN "overwrite" ELSE "assert_failed"
    /\ UNCHANGED <<cfg, db, environ, all_shots, subshots, which_shot, records,
                   computed, submitted, oplog>>

---------------------------------------------------------------------------
(* Lines 155-169: the groups to overwrite, and the batches.                *)

\* a deletion that stops after the first shot of the list
DeleteFirstShot(fd, shots) ==
    IF shots = <<>> \/ ~HasGroup(fd, Str(Head(shots))) THEN fd
    ELSE DelGroup(fd, Str(Head(shots)))

RECURSIVE DeleteShots(_, _)
\* lines 157-159
DeleteShots(fd, shots) ==
    IF shots = <<>> THEN fd
    ELSE DeleteShots(IF HasGroup(fd, Str(Head(shots)))
                     THEN DelGroup(fd, Str(Head(shots))) ELSE fd,
                     Tail(shots))

OverwriteShots ==
    /\ pc = "overwrite"
    /\ final_data' = IF cfg.overwrite_shots
                     THEN DeleteShots(final_data, all_shots) ELSE final_data
    /\ pc' = "subshots"
    /\ UNCHANGED <<cfg, db, environ, all_shots, subshots, which_shot, records,
                   computed, submitted, oplog>>

\* where the loop of line 171 goes for batch number i
LoopAtCompute(ss, i) == IF i <= Len(ss) THEN "compute" ELSE "done"

\* line 171: the next batch starts at its SQL phases
LoopAt(ss, i) == IF i <= Len(ss) THEN "summary" ELSE "done"

MakeSubshots ==
    /\ pc = "subshots"
    /\ subshots' = Subshots(all_shots, cfg.max_shots_per_run)
    /\ which_shot' = 1
    /\ pc' = LoopAt(subshots', 1)
    /\ UNCHANGED <<cfg, db, environ, all_shots, final_data, records, computed,
                   submitted, oplog>>

\* the batch being processed
shots == subshots[which_shot]

---------------------------------------------------------------------------
(* Values: what the database returns and what the file stores.             *)

None == [k |-> "None"]
NaN == [k |-> "nan"]
Text(s) == [k |-> "text", v |-> s]
Num(n) == [k |-> "num", v |-> n]
DateTime(d) == [k |-> "datetime", v |-> d]
ListOf(items) == [k |-> "list", items |-> items]

\* str(v) of a database value
PyStr(v) ==
    IF v.k = "None" THEN "None"
    ELSE IF v.k = "num" THEN Str(v.v)
    ELSE v.v

\* final_data[g][name] = v without a del before it: h5py raises when the
\* name exists.  [file, ok]
CreateDataset(fd, g, name, v) ==
    IF HasDataset(fd, g, name) THEN [file |-> fd, ok |-> FALSE]
    ELSE [file |-> SetDataset(fd, g, name, v), ok |-> TRUE]

\* the distinct elements of s, in the order of their first occurrence
RECURSIVE Dedupe(_)
Dedupe(s) ==
    IF s = <<>> THEN <<>>
    ELSE LET front == Dedupe(SubSeq(s, 1, Len(s) - 1))
             last == s[Len(s)]
         IN  IF last \in Range(front) THEN front ELSE Append(front, last)

\* the sequences over S without a repeated element
Arrangements(S) ==
    {q \in SeqsUpTo(S, Cardinality(S)) : \A i, j \in DOMAIN q : i # j => q[i] # q[j]}

---------------------------------------------------------------------------
(* Lines 175-203: the summary SQL signals.                                 *)

\* lines 197-203: the value stored for a database value
SummaryValue(v) ==
    IF v = None THEN NaN
    ELSE IF v.k = "datetime" THEN Text(PyStr(v))
    ELSE v

RECURSIVE SummarySigs(_, _, _, _)
\* lines 194-203 for one record
SummarySigs(fd, g, record, sigs) ==
    IF sigs = <<>> THEN [file |-> fd, ok |-> TRUE]
    ELSE LET r == CreateDataset(fd, g, Head(sigs) \o "_sql",
                                SummaryValue(record[Head(sigs)]))
         IN  IF ~r.ok THEN r ELSE SummarySigs(r.file, g, record, Tail(sigs))

RECURSIVE SummaryWrite(_, _, _)
\* lines 190-203
SummaryWrite(fd, rows, sigs) ==
    IF rows = <<>> THEN [file |-> fd, ok |-> TRUE]
    ELSE LET g == Str(Head(rows)["shot"])
             r == SummarySigs(RequireGroup(fd, g), g, Head(rows), sigs)
         IN  IF ~r.ok THEN r ELSE SummaryWrite(r.file, Tail(rows), sigs)

\* what the database may hold in a summary column
SummaryDbValues == {None, DateTime("2021-01-01 10:00:00"), Num(1)}

\* the rows of a table whose shot is in the batch (WHERE shot in (...)),
\* in the order the database returns them
Query(table, batch) == SelectSeq(table, LAMBDA row : row["shot"] \in Range(batch))

SummaryRow(shot, vals) ==
    [n \in {"shot"} \cup DOMAIN vals |-> IF n = "shot" THEN shot ELSE vals[n]]

\* the contents the summaries table may have: at most one row per shot
SummaryTables(sigs) ==
    UNION {{[i \in DOMAIN q |-> SummaryRow(q[i], vals[i])] :
                vals \in [DOMAIN q -> [Range(sigs) -> SummaryDbValues]]} :
           q \in Arrangements(ShotIds)}

SummarySql ==
    /\ pc = "summary"
    /\ IF Len(cfg.sql_sig_names) > 0
       THEN LET rows == Query(db.summaries, shots)
                r == SummaryWrite(final_data, rows, cfg.sql_sig_names)
            IN  /\ final_data' = r.file
                /\ pc' = IF r.ok THEN "gas" ELSE "exception"
                /\ oplog' = Append(oplog, <<which_shot, "summary">>)
       ELSE /\ pc' = "gas"
            /\ UNCHANGED <<final_data, oplog>>
    /\ UNCHANGED <<cfg, db, environ, all_shots, subshots, which_shot, records,
                   computed, submitted>>

---------------------------------------------------------------------------
(* Lines 205-256: the gas and the log SQL signals.                         *)

gas_sigs == <<"gas", "valve">>
log_sigs == <<"text", "topic", "username">>

RECURSIVE ColumnOf(_, _, _)
\* lines 221-224: the stringified values of column sig in the rows of shot
ColumnOf(rows, shot, sig) ==
    IF rows = <<>> THEN <<>>
    ELSE (IF Head(rows)["shot"] = shot THEN <<PyStr(Head(rows)[sig])>> ELSE <<>>)
         \o ColumnOf(Tail(rows), shot, sig)

RECURSIVE ListSigs(_, _, _, _, _)
\* lines 228-230 for one shot of tmp_dic
ListSigs(fd, shot, rows, sigs, g) ==
    IF sigs = <<>> THEN [file |-> fd, ok |-> TRUE]
    ELSE LET r == CreateDataset(fd, g, Head(sigs) \o "_sql",
                                ListOf(ColumnOf(rows, shot, Head(sigs))))
         IN  IF ~r.ok THEN r ELSE ListSigs(r.file, shot, rows, Tail(sigs), g)

RECURSIVE ListWrite(_, _, _, _)
\* lines 225-230: keys are the shots of tmp_dic, in dict order
ListWrite(fd, keys, rows, sigs) ==
    IF keys = <<>> THEN [file |-> fd, ok |-> TRUE]
    ELSE LET g == Str(Head(keys))
             r == ListSigs(RequireGroup(fd, g), Head(keys), rows, sigs, g)
         IN  IF ~r.ok THEN r ELSE ListWrite(r.file, Tail(keys), rows, sigs)

\* lines 220-230 and 246-256: tmp_dic has one key per distinct shot
ListPhase(fd, batch, rows, sigs) == ListWrite(fd, Dedupe(batch), rows, sigs)

\* what a row of gasvalves may hold in (gas, valve)
GasRowValues == {<<Text("D2"), Text("A")>>, <<None, Text("B")>>}

GasRow(shot, gv) ==
    [n \in {"shot", "gas", "valve"} |->
        IF n = "shot" THEN shot ELSE IF n = "gas" THEN gv[1] ELSE gv[2]]

\* the contents the gasvalves table may have
GasTables ==
    {[i \in DOMAIN q |-> GasRow(q[i][1], q[i][2])] :
        q \in SeqsUpTo(ShotIds \X GasRowValues, MaxRows)}

GasSql ==
    /\ pc = "gas"
    /\ IF cfg.include_gas_valve_info
       THEN LET rows == Query(db.gasvalves, shots)
                r == ListPhase(final_data, shots, rows, gas_sigs)
            IN  /\ final_data' = r.file
                /\ pc' = IF r.ok THEN "log" ELSE "exception"
                /\ oplog' = Append(oplog, <<which_shot, "gas">>)
       ELSE /\ pc' = "log"
            /\ UNCHANGED <<final_data, oplog>>
    /\ UNCHANGED <<cfg, db, environ, all_shots, subshots, which_shot, records,
                   computed, submitted>>

\* what a row of entries may hold in (text, topic, username)
LogRowValues == {<<Text("note"), Text("ops"), Text("ann")>>,
                 <<Text("fix"), None, Text("bob")>>}

LogRow(shot, tv) ==
    [n \in {"shot", "text", "topic", "username"} |->
        IF n = "shot" THEN shot
        ELSE IF n = "text" THEN tv[1]
        ELSE IF n = "topic" THEN tv[2] ELSE tv[3]]

\* the contents the entries table may have
LogTables ==
    {[i \in DOMAIN q |-> LogRow(q[i][1], q[i][2])] :
        q \in SeqsUpTo(ShotIds \X LogRowValues, MaxRows)}

LogSql ==
    /\ pc = "log"
    /\ IF cfg.include_log_info
       THEN LET rows == Query(db.entries, shots)
                r == ListPhase(final_data, shots, rows, log_sigs)
            IN  /\ final_data' = r.file
                /\ pc' = IF r.ok THEN "compute" ELSE "exception"
                /\ oplog' = Append(oplog, <<which_shot, "log">>)
       ELSE /\ pc' = "compute"
            /\ UNCHANGED <<final_data, oplog>>
    /\ UNCHANGED <<cfg, db, environ, all_shots, subshots, which_shot, records,
                   computed, submitted>>

---------------------------------------------------------------------------
(* Lines 258-792: the pipeline of the time-based signals.  The framework   *)
(* makes one record per shot, stores None and an entry of record['errors'] *)
(* for a fetch that fails, catches an exception of a map function in       *)
(* record['errors'] and goes on with the record as the function left it.   *)

CrashSignature == "Failure to complete operation"

\* the tracebacks of a failing fetch: with the signature of line 796, or not
CrashTraceback == "MdsException: " \o CrashSignature
NoDataTraceback == "TreeNODATA: No data available for this node"
KeyErrorTraceback == "KeyError"

\* 'Failure to complete operation' in traceback (line 796)
HasSignature(traceback) == traceback = CrashTraceback

\* what a fetch may do: return the signal, or fail with a traceback (the
\* record then holds None; an exception inside standardize_time ends in
\* the same except clause of line 575)
FetchOutcomes == {"ok", CrashTraceback, NoDataTraceback}

FullName(sig) == sig \o "_full"

\* the keys fetched (lines 281-319): one per needed signal
FetchKeys == {FullName(needed_sigs[i]) : i \in DOMAIN needed_sigs}

\* the EFIT profile signals, in the order of the loops of lines 577-579
ProfileSigs == NeededEfit(cfg, cfg.efit_types)

\* the length of the native psi grid of a shot's EFIT profiles
PsiPoints(shot) == shot + 1

\* the dict a fetch returns; x is the shape of the spatial dimension
Fetched(shot, sig, outcome) ==
    [k |-> "fetched", shot |-> shot, sig |-> sig,
     x |-> IF sig \in Range(ProfileSigs) THEN <<PsiPoints(shot)>> ELSE <<>>]

\* a signal on the standard time base
Resampled(full) == [k |-> "ts", shot |-> full.shot, sig |-> full.sig, x |-> full.x]

IsFailure(outcome) == outcome \in {CrashTraceback, NoDataTraceback}

\* pipeline.fetch of every key, on a new record of the shot
FetchAll(shot, out) ==
    [n \in {"shot", "errors"} \cup FetchKeys |->
        IF n = "shot" THEN shot
        ELSE IF n = "errors"
             THEN [key \in {f \in FetchKeys : IsFailure(out[f])} |->
                      [traceback |-> out[key]]]
        ELSE LET sig == CHOOSE sg \in Range(needed_sigs) : FullName(sg) = n
             IN  IF IsFailure(out[n]) THEN None ELSE Fetched(shot, sig, out[n])]

\* add_timebase (lines 507-510)
AddTimebase(record) == Put(record, "standard_time", [k |-> "times", v |-> standard_times])

\* lines 565-576 for one signal: the try, and the except that passes
ResampleOne(record, sig) ==
    IF /\ FullName(sig) \in DOMAIN record
       /\ record[FullName(sig)] # None
    THEN Put(record, sig, Resampled(record[FullName(sig)]))
    ELSE record

RECURSIVE ResampleUntilFailure(_, _)
\* the loop of lines 564-576 without its try: the first failure ends it
ResampleUntilFailure(record, sigs) ==
    IF sigs = <<>> THEN record
    ELSE IF ResampleOne(record, Head(sigs)) = record THEN record
    ELSE ResampleUntilFailure(ResampleOne(record, Head(sigs)), Tail(sigs))

RECURSIVE ResampleAll(_, _)
\* lines 563-576
ResampleAll(record, sigs) ==
    IF sigs = <<>> THEN record
    ELSE ResampleAll(ResampleOne(record, Head(sigs)), Tail(sigs))

\* lines 580-585: the profile on standard_x, one row per time index
OnStandardX(v) ==
    [v EXCEPT !.x = IF Len(standard_times) = 0 THEN <<>> ELSE <<Len(standard_x)>>]

RECURSIVE InterpolateProfiles(_, _)
\* lines 577-585: no try here, a missing record[sig_name] raises KeyError
\* and ends the function.  [record, ok]
InterpolateProfiles(record, sigs) ==
    IF sigs = <<>> THEN [record |-> record, ok |-> TRUE]
    ELSE IF Head(sigs) \notin DOMAIN record THEN [record |-> record, ok |-> FALSE]
    ELSE InterpolateProfiles(Put(record, Head(sigs), OnStandardX(record[Head(sigs)])),
                             Tail(sigs))

\* the record with errors[name] set (the framework's handling of a map
\* function that raises)
SetError(record, name, traceback) ==
    Put(record, "errors", Put(record["errors"], name, [traceback |-> traceback]))

\* change_timebase (lines 561-585) as a map of the pipeline
change_timebase(record) ==
    LET r == InterpolateProfiles(ResampleAll(record, needed_sigs), ProfileSigs)
    IN  IF r.ok THEN r.record
        ELSE SetError(r.record, "change_timebase", KeyErrorTraceback)

\* a pipeline without the keep: every key of the record stays
KeepEverything(record, keys) == record

\* pipeline.keep(keys) (line 775): shot and errors stay
Keep(record, keys) ==
    [n \in DOMAIN record \cap ({"shot", "errors"} \cup Range(keys)) |-> record[n]]

\* the record the pipeline returns for a shot
PipelineRecord(shot, out) ==
    Keep(change_timebase(AddTimebase(FetchAll(shot, out))), needed_sigs)

\* lines 788-792: the call that computes the pipeline
ComputeAlwaysRay(c) == <<"compute_ray", c.num_processes>>

\* lines 787-792
ComputeCall(c) ==
    IF c.num_processes > 1 THEN <<"compute_ray", c.num_processes>>
    ELSE <<"compute_serial", 0>>

Compute ==
    /\ pc = "compute"
    /\ \E outs \in [DOMAIN shots -> [FetchKeys -> FetchOutcomes]] :
          records' = [i \in DOMAIN shots |-> PipelineRecord(shots[i], outs[i])]
    /\ computed' = Append(computed, ComputeCall(cfg))
    /\ oplog' = Append(oplog, <<which_shot, "compute">>)
    /\ pc' = "check"
    /\ UNCHANGED <<cfg, db, environ, all_shots, final_data, subshots, which_shot,
                   submitted>>

---------------------------------------------------------------------------
(* Lines 793-804: the crash check.                                         *)

\* error_check of line 796 is not empty
HasCrash(record) ==
    \E key \in DOMAIN record["errors"] : HasSignature(record["errors"][key].traceback)

\* a relaunch that ends at the crashed batch's first shot itself
RelaunchThroughFirst(c, shotlist, batch) ==
    <<c.config_filename, SetMin(Range(shotlist)), batch[1]>>

\* a relaunch that ends below the crashed batch's last shot
RelaunchBelowLast(c, shotlist, batch) ==
    <<c.config_filename, SetMin(Range(shotlist)), batch[Len(batch)] - 1>>

\* the arguments of submit_single_run (line 800)
RelaunchCall(c, shotlist, batch) ==
    <<c.config_filename, SetMin(Range(shotlist)), batch[1] - 1>>

\* a check that looks at the first record only
BreakOnFirstRecord(recs) == recs # <<>> /\ HasCrash(recs[1])

\* break_condition after the loop of lines 795-802
BreakCondition(recs) == \E i \in DOMAIN recs : HasCrash(recs[i])

CrashCheck ==
    /\ pc = "check"
    /\ oplog' = Append(oplog, <<which_shot, "check">>)
    /\ IF BreakCondition(records)
       THEN /\ submitted' = Append(submitted, RelaunchCall(cfg, all_shots, shots))
            /\ pc' = "broken"
       ELSE /\ pc' = "write"
            /\ UNCHANGED submitted
    /\ UNCHANGED <<cfg, db, environ, all_shots, final_data, subshots, which_shot,
                   records, computed>>

---------------------------------------------------------------------------
(* Lines 805-847: the write of the time-based signals.                     *)

\* the keys of a record that are written (lines 811-813)
WrittenKeys(record) == DOMAIN record \ {"shot", "errors"}

\* an assignment that leaves a dataset of the name as it is
AssignIfAbsent(fd, g, name, v) ==
    IF HasDataset(fd, g, name) THEN fd ELSE SetDataset(fd, g, name, v)

\* lines 814-816: a dataset of the name is deleted first
ReplaceDataset(fd, g, name, v) ==
    SetDataset(IF HasDataset(fd, g, name) THEN DelDataset(fd, g, name) ELSE fd,
               g, name, v)

RECURSIVE WriteSigs(_, _, _, _)
\* lines 811-816 over the keys left to write
WriteSigs(fd, g, record, keys) ==
    IF keys = {} THEN fd
    ELSE LET sig == CHOOSE n \in keys : TRUE
         IN  WriteSigs(ReplaceDataset(fd, g, sig, record[sig]), g, record,
                       keys \ {sig})

valve_mapping ==
    << <<"gasA", "A">>, <<"gasB", "B">>, <<"gasC", "C">>, <<"gasD", "D">>,
       <<"gasE", "E">>, <<"pfx1", "PFX1">>, <<"pfx2", "PFX2">>,
       <<"pfx3", "PFX3">>, <<"uob", "UOB">> >>

gas_mapping ==
    [n \in {"D2", "N2", "H2", "HE", "NE", "AR"} |->
        CASE n = "D2" -> "D_tot" [] n = "N2" -> "N_tot" [] n = "H2" -> "H_tot"
          [] n = "HE" -> "He_tot" [] n = "NE" -> "Ne_tot" [] n = "AR" -> "Ar_tot"]

\* gas.strip().upper() of the gas names the database holds here
StripUpper(gas) == IF gas = "None" THEN "NONE" ELSE gas

\* np.zeros(len(standard_times)) and the sums built on it
Zeros == [k |-> "sum", of |-> <<>>]

\* whether lines 822-844 run
CombinesGas(c) ==
    /\ Len(c.combined_gas_types) > 0
    /\ c.include_gas_valve_info
    /\ Len(c.gas_cal_sig_names) > 0

RECURSIVE ZeroGases(_, _, _)
\* lines 835-836: a plain assignment, h5py raises when the name exists
ZeroGases(fd, g, gases) ==
    IF gases = <<>> THEN [file |-> fd, ok |-> TRUE]
    ELSE LET r == CreateDataset(fd, g, Head(gases), Zeros)
         IN  IF ~r.ok THEN r ELSE ZeroGases(r.file, g, Tail(gases))

\* valves.index(v)
IndexOf(list, v) == CHOOSE i \in DOMAIN list : list[i] = v /\ \A j \in 1 .. i - 1 : list[j] # v

\* lines 838-844 for one valve
AddValve(fd, g, pair, combined) ==
    LET valves == fd.groups[g]["valve_sql"].items
        gases == fd.groups[g]["gas_sql"].items
    IN  IF ~(pair[1] \in DOMAIN fd.groups[g] /\ pair[2] \in Range(valves)) THEN fd
        ELSE LET gas == StripUpper(gases[IndexOf(valves, pair[2])])
             IN  IF gas \notin DOMAIN gas_mapping THEN fd
                 ELSE IF gas_mapping[gas] \notin Range(combined) THEN fd
                 ELSE SetDataset(fd, g, gas_mapping[gas],
                        [fd.groups[g][gas_mapping[gas]] EXCEPT
                            !.of = Append(@, fd.groups[g][pair[1]])])

RECURSIVE AddValves(_, _, _, _)
\* lines 837-844
AddValves(fd, g, pairs, combined) ==
    IF pairs = <<>> THEN fd
    ELSE AddValves(AddValve(fd, g, Head(pairs), combined), g, Tail(pairs), combined)

\* lines 822-844.  [file, ok]
CombineGas(fd, g, combined) ==
    LET z == ZeroGases(fd, g, combined)
    IN  IF ~z.ok THEN z
        ELSE [file |-> AddValves(z.file, g, valve_mapping, combined), ok |-> TRUE]

\* lines 808-847 for one record.  [file, ok]
WriteRecord(fd, record) ==
    LET g == Str(record["shot"])
        w == WriteSigs(RequireGroup(fd, g), g, record, WrittenKeys(record))
    IN  IF CombinesGas(cfg) THEN CombineGas(w, g, cfg.combined_gas_types)
        ELSE [file |-> w, ok |-> TRUE]

RECURSIVE WriteRecords(_, _)
\* lines 806-847.  [file, ok]
WriteRecords(fd, recs) ==
    IF recs = <<>> THEN [file |-> fd, ok |-> TRUE]
    ELSE LET r == WriteRecord(fd, Head(recs))
         IN  IF ~r.ok THEN r ELSE WriteRecords(r.file, Tail(recs))

\* records is not read again after the write loop: the model forgets it
WriteTimebased ==
    /\ pc = "write"
    /\ LET r == WriteRecords(final_data, records)
       IN  /\ final_data' = r.file
           /\ pc' = IF r.ok THEN LoopAt(subshots, which_shot + 1) ELSE "exception"
           /\ which_shot' = IF r.ok THEN which_shot + 1 ELSE which_shot
    /\ oplog' = Append(oplog, <<which_shot, "write">>)
    /\ records' = <<>>
    /\ UNCHANGED <<cfg, db, environ, all_shots, subshots, computed, submitted>>

---------------------------------------------------------------------------
(* Configurations and files the script may be started with.                *)

\* a configuration with two EFIT profile signals of one EFIT type and the
\* standard grids; the fields below it vary
BaseCfg ==
    [config_filename |-> "configs/run.yaml",
     shots |-> <<>>,
     max_shots_per_run |-> 1,
     num_processes |-> 1,
     overwrite_shots |-> FALSE,
     sql_sig_names |-> <<>>,
     include_gas_valve_info |-> FALSE,
     include_log_info |-> FALSE,
     combined_gas_types |-> <<>>,
     gas_cal_sig_names |-> <<>>,
     efit_types |-> <<"EFIT01">>,
     efit_profile_sig_names |-> <<"temp", "dens">>,
     tmin |-> 0, tmax |-> MaxT, time_step |-> 1,
     num_x_points |-> MaxX]

ShotLists == SeqsUpTo(ShotIds, MaxShots)

\* the shared datasets a run with BaseCfg's grids leaves in the file
BaseTop ==
    [n \in {"times", "spatial_coordinates"} |->
        IF n = "times" THEN Arange(0, MaxT, 1) ELSE Linspace01(MaxX)]

\* datasets of an earlier run
Old(name) == [k |-> "old", sig |-> name]

OldGroup(names) == [n \in names |-> Old(n)]

\* a group of an earlier run that fetched the profiles
OldProfiles == OldGroup({"temp_EFIT01", "dens_EFIT01", "ip"})

\* the files: new, or left by an earlier run for some of the shots
FilesOver(tops, contents) ==
    {[top |-> t, groups |-> [g \in {Str(sh) : sh \in S} |-> c]] :
        t \in tops, c \in contents, S \in SUBSET ShotIds}

CoreCfgs ==
    {[BaseCfg EXCEPT !.shots = sl, !.max_shots_per_run = m,
                     !.overwrite_shots = ow] :
        sl \in ShotLists, m \in 1 .. MaxPerRun, ow \in BOOLEAN}

\* a database with a row of every table for shot 1 and a gas row for shot 2
BaseDb ==
    [summaries |-> <<SummaryRow(1, [n \in {"betan"} |-> Num(1)])>>,
     gasvalves |-> <<GasRow(1, <<Text("D2"), Text("A")>>),
                     GasRow(2, <<None, Text("B")>>)>>,
     entries |-> <<LogRow(1, <<Text("note"), Text("ops"), Text("ann")>>)>>]

UnsetEnv == [v \in ThreadVars |-> "unset"]

InitWith(cfgs, files, dbs, envs) ==
    /\ cfg \in cfgs
    /\ final_data \in files
    /\ db \in dbs
    /\ environ \in envs
    /\ all_shots = <<>>
    /\ subshots = <<>>
    /\ which_shot = 0
    /\ records = <<>>
    /\ computed = <<>>
    /\ submitted = <<>>
    /\ oplog = <<>>
    /\ pc = "configure"

Init ==
    InitWith(CoreCfgs, FilesOver({EmptyDict, BaseTop}, {OldProfiles}),
             {BaseDb}, {UnsetEnv})

Next ==
    \/ Configure
    \/ Startup
    \/ OverwriteShots
    \/ MakeSubshots
    \/ SummarySql
    \/ GasSql
    \/ LogSql
    \/ Compute
    \/ CrashCheck
    \/ WriteTimebased

Spec == Init /\ [][Next]_vars

---------------------------------------------------------------------------
(* The start-up block over the grids of the configuration and of the file. *)

TimeGrids == {Arange(a, b, st) : a \in 0 .. MaxT, b \in 0 .. MaxT, st \in 1 .. MaxT}

XGrids == {Linspace01(n) : n \in 0 .. MaxX}

\* the top level of a file: each shared dataset present or not
TopsOver(ts, xs) ==
    {[n \in {"times", "spatial_coordinates"} |-> IF n = "times" THEN t ELSE x] :
        t \in ts, x \in xs}
    \cup {[n \in {"times"} |-> t] : t \in ts}
    \cup {[n \in {"spatial_coordinates"} |-> x] : x \in xs}
    \cup {EmptyDict}

StartupCfgs ==
    {[BaseCfg EXCEPT !.shots = <<1>>, !.overwrite_shots = ow, !.tmin = a,
                     !.tmax = b, !.time_step = st, !.num_x_points = n] :
        ow \in BOOLEAN, a \in 0 .. MaxT, b \in 0 .. MaxT, st \in 1 .. MaxT,
        n \in 0 .. MaxX}

StartupFiles ==
    {[top |-> t, groups |-> [g \in {"1"} |-> OldProfiles]] :
        t \in TopsOver(TimeGrids, XGrids)}

InitStartup == InitWith(StartupCfgs, StartupFiles, {BaseDb}, {UnsetEnv})

SpecStartup == InitStartup /\ [][Next]_vars

---------------------------------------------------------------------------
(* The switches of the configuration.                                      *)

\* a group of an earlier run with the same switches
OldEverything ==
    OldGroup({"temp_EFIT01", "gasA", "D_tot", "betan_sql", "gas_sql",
              "valve_sql", "text_sql", "topic_sql", "username_sql"})

SwitchShotLists == {<<1>>, <<1, 2>>, <<2, 1, 2>>}

SwitchCfgs ==
    {[BaseCfg EXCEPT !.shots = sl, !.max_shots_per_run = m,
                     !.num_processes = np, !.sql_sig_names = sq,
                     !.include_gas_valve_info = g, !.include_log_info = l,
                     !.combined_gas_types = cg[1], !.gas_cal_sig_names = cg[2],
                     !.overwrite_shots = ow,
                     !.efit_profile_sig_names = <<"temp">>] :
        sl \in SwitchShotLists, m \in 1 .. MaxPerRun, np \in 1 .. MaxProcs,
        sq \in {<<>>, <<"betan">>}, g \in BOOLEAN, l \in BOOLEAN,
        cg \in {<< <<>>, <<>> >>, << <<"D_tot">>, <<"gasA">> >>},
        ow \in BOOLEAN}

SwitchFiles ==
    {[top |-> EmptyDict, groups |-> [g \in S |-> OldEverything]] : S \in {{}, {"1"}}}

InitSwitches ==
    InitWith(SwitchCfgs, SwitchFiles, {BaseDb},
             {UnsetEnv, [v \in ThreadVars |-> "8"]})

SpecSwitches == InitSwitches /\ [][Next]_vars

---------------------------------------------------------------------------
(* Files of an earlier run that hold a group for every shot.               *)

FullFiles ==
    {[top |-> t, groups |-> [g \in {Str(sh) : sh \in ShotIds} |-> OldProfiles]] :
        t \in {EmptyDict, BaseTop}}

InitOverwrite == InitWith(CoreCfgs, FullFiles, {BaseDb}, {UnsetEnv})

SpecOverwrite == InitOverwrite /\ [][Next]_vars

---------------------------------------------------------------------------
(* The SQL phases over the contents of the database.                       *)

SqlShotLists == {<<1>>, <<2, 1>>, <<1, 2, 2>>}

\* no time-based signal is asked for: the batches are their SQL phases
SqlCfgs ==
    {[BaseCfg EXCEPT !.shots = sl, !.max_shots_per_run = m,
                     !.sql_sig_names = sq,
                     !.include_gas_valve_info = g, !.include_log_info = l,
                     !.overwrite_shots = ow,
                     !.efit_profile_sig_names = <<>>] :
        sl \in SqlShotLists, m \in 1 .. MaxPerRun,
        sq \in {<<>>, <<"betan">>}, g \in BOOLEAN, l \in BOOLEAN,
        ow \in BOOLEAN}

\* one table varies at a time
SqlDbs ==
    {[BaseDb EXCEPT !.summaries = t] : t \in SummaryTables(<<"betan">>)}
        \cup {[BaseDb EXCEPT !.gasvalves = t] : t \in GasTables}
        \cup {[BaseDb EXCEPT !.entries = t] : t \in LogTables}

InitSql == InitWith(SqlCfgs, SwitchFiles, SqlDbs, {UnsetEnv})

SpecSql == InitSql /\ [][Next]_vars

---------------------------------------------------------------------------
(* Properties.                                                             *)

\* the start-up block has run and no assertion failed
PastStartup == pc \notin {"configure", "startup", "assert_failed"}

SharedEqualGrids(fd) ==
    /\ DOMAIN fd.top = {"times", "spatial_coordinates"}
    /\ fd.top["times"] = standard_times
    /\ fd.top["spatial_coordinates"] = standard_x

\* C1: once the start-up block has run without an assertion failure, the
\* file holds `times` and `spatial_coordinates` and they equal the grids of
\* the configuration, for the rest of the run.
C1_SharedDatasetsEqualGrids == PastStartup => SharedEqualGrids(final_data)

\* a shared dataset of the file that is not the grid of the configuration
SharedDiffers(fd) ==
    \/ "times" \in DOMAIN fd.top /\ fd.top["times"] # standard_times
    \/ "spatial_coordinates" \in DOMAIN fd.top
        /\ fd.top["spatial_coordinates"] # standard_x

\* C7: when a shared dataset of the file differs from the grid of the
\* configuration, the start-up block ends in an assertion failure and
\* leaves the file as it was.
C7_MismatchStopsUnchanged ==
    [][(pc = "startup" /\ SharedDiffers(final_data))
        => (pc' = "assert_failed" /\ final_data' = final_data)]_vars


\* the batches have been made
HasBatches == pc \notin {"configure", "startup", "overwrite", "subshots", "assert_failed"}

Count(seq, x) == Cardinality({i \in DOMAIN seq : seq[i] = x})

IsDescending(seq) == \A i \in 1 .. Len(seq) - 1 : seq[i] >= seq[i + 1]

\* C8: the batches partition the shots: ceil(n/m) batches, none empty, none
\* longer than m, only the last one shorter than m, and their concatenation
\* is the shot list of the configuration in descending order.
C8_BatchesPartitionShots ==
    HasBatches =>
        LET n == Len(cfg.shots)
            m == cfg.max_shots_per_run
        IN  /\ Len(subshots) = (n + m - 1) \div m
            /\ \A b \in DOMAIN subshots :
                  /\ Len(subshots[b]) >= 1
                  /\ Len(subshots[b]) <= m
                  /\ b < Len(subshots) => Len(subshots[b]) = m
            /\ Flatten(subshots) = all_shots
            /\ IsDescending(all_shots)
            /\ \A x \in ShotIds : Count(all_shots, x) = Count(cfg.shots, x)
            /\ n = 0 => subshots = <<>>

\* batches of a list that the batch size does not divide, from unsorted input
C8_Witness ==
    /\ HasBatches
    /\ Len(subshots) >= 2
    /\ Len(subshots[Len(subshots)]) < cfg.max_shots_per_run
    /\ cfg.shots # all_shots

Max(S) == CHOOSE x \in S : \A y \in S : x >= y

\* C3: a crash signature in the batch's records makes exactly one call of
\* submit_single_run, with the configuration file and the range
\* min(all_shots) .. shots[0]-1, shots[0] being the largest shot of the
\* batch, and ends the loop; without one no call is made.
C3_CrashRelaunchesOnce ==
    /\ Len(submitted) <= 1
    /\ (pc = "broken") = (Len(submitted) = 1)
    /\ pc = "write" => \A i \in DOMAIN records : ~HasCrash(records[i])
    /\ pc = "broken" =>
          /\ \E i \in DOMAIN records : HasCrash(records[i])
          /\ submitted[1] = <<cfg.config_filename, SetMin(Range(all_shots)),
                              Max(Range(shots)) - 1>>
          /\ ~ENABLED Next

\* a crash in the second record of a batch, with a batch left to do
C3_Witness ==
    /\ pc = "broken"
    /\ Len(subshots) >= 2
    /\ Len(shots) >= 2
    /\ HasCrash(records[2])
    /\ ~HasCrash(records[1])

\* the shots of the batches written before the current one
WrittenShots == UNION {Range(subshots[k]) : k \in 1 .. which_shot - 1}

\* the shots of the current and the later batches that no written batch holds
UnwrittenShots ==
    UNION {Range(subshots[k]) : k \in which_shot .. Len(subshots)} \ WrittenShots

InRelaunch(s) == submitted[1][2] <= s /\ s <= submitted[1][3]

\* C4 as stated: when the run stops on a crash every shot not yet written
\* lies in the relaunched range.
C4_UnwrittenInRelaunchRange ==
    pc = "broken" => \A s \in UnwrittenShots : InRelaunch(s)

\* C4 amended: every unwritten shot except the first shot of the crashed
\* batch lies in the relaunched range; that shot is above the range.
C4_UnwrittenButFirstInRange ==
    pc = "broken" =>
        /\ \A s \in UnwrittenShots : s # shots[1] => InRelaunch(s)
        /\ ~InRelaunch(shots[1])

\* a crash after a written batch, with a shot left for the relaunch
C4_Witness ==
    /\ pc = "broken"
    /\ which_shot >= 2
    /\ \E s \in UnwrittenShots : s # shots[1] /\ InRelaunch(s)


GroupOf(record) == Str(record["shot"])

\* C2: when the write of a batch finishes, every record's group exists and
\* holds, for every key of the record other than 'shot' and 'errors', a
\* dataset with the record's value, and no dataset 'shot' or 'errors'.
C2_RecordsPersisted ==
    [][(pc = "write" /\ pc' # "exception") =>
        \A i \in DOMAIN records :
            /\ HasGroup(final_data', GroupOf(records[i]))
            /\ \A key \in DOMAIN records[i] \ {"shot", "errors"} :
                  /\ HasDataset(final_data', GroupOf(records[i]), key)
                  /\ final_data'.groups[GroupOf(records[i])][key] = records[i][key]
            /\ ~HasDataset(final_data', GroupOf(records[i]), "shot")
            /\ ~HasDataset(final_data', GroupOf(records[i]), "errors")]_vars

\* the fetch of the signal failed for the record
FetchFailed(record, sig) == FullName(sig) \in DOMAIN record["errors"]

\* every signal whose fetch did not fail is in the record, resampled
OthersResampled(recs) ==
    \A i \in DOMAIN recs : \A j \in DOMAIN needed_sigs :
        (needed_sigs[j] \in DOMAIN recs[i]) = ~FetchFailed(recs[i], needed_sigs[j])

SomeFetchFailed(recs) ==
    \E i \in DOMAIN recs : \E j \in DOMAIN needed_sigs : FetchFailed(recs[i], needed_sigs[j])

\* the write put the signals of the records into the groups and left the
\* datasets of the signals no record of the shot holds as they were
PartialRecordsWritten(recs, before, after) ==
    \A i \in DOMAIN recs : \A j \in DOMAIN needed_sigs :
        LET g == GroupOf(recs[i])
            sig == needed_sigs[j]
        IN  IF \E k \in DOMAIN recs : GroupOf(recs[k]) = g /\ sig \in DOMAIN recs[k]
            THEN HasDataset(after, g, sig) /\ after.groups[g][sig].k = "ts"
            ELSE /\ HasDataset(after, g, sig) = HasDataset(before, g, sig)
                 /\ HasDataset(before, g, sig) =>
                        after.groups[g][sig] = before.groups[g][sig]

\* C5 as stated: a failing signal leaves the other signals resampled, never
\* stops the batch, and the group is written with the signals that succeeded.
C5_FailureNeverStops ==
    [][/\ pc' = "check" => OthersResampled(records')
       /\ (pc = "check" /\ SomeFetchFailed(records)) => pc' = "write"
       /\ (pc = "write" /\ pc' # "exception") =>
             PartialRecordsWritten(records, final_data, final_data')]_vars

\* C5 amended: the same, but the batch goes on to the write only when no
\* record of the batch carries the crash signature.
C5_FailureSwallowedUnlessCrash ==
    [][/\ pc' = "check" => OthersResampled(records')
       /\ (pc = "check" /\ \A i \in DOMAIN records : ~HasCrash(records[i]))
             => pc' = "write"
       /\ (pc = "write" /\ pc' # "exception") =>
             PartialRecordsWritten(records, final_data, final_data')]_vars

\* a group written from a record whose first profile failed
C5_Witness ==
    /\ pc \in {"summary", "done"}
    /\ which_shot >= 2
    /\ \E g \in DOMAIN final_data.groups :
          /\ "temp_EFIT01" \notin DOMAIN final_data.groups[g]
          /\ "dens_EFIT01" \in DOMAIN final_data.groups[g]
          /\ final_data.groups[g]["dens_EFIT01"].k = "ts"

\* C6: every EFIT profile written by a batch has num_x_points entries in
\* its spatial dimension.
C6_ProfilesOnStandardX ==
    [][pc = "write" =>
        \A i \in DOMAIN records : \A j \in DOMAIN ProfileSigs :
            ProfileSigs[j] \in DOMAIN records[i] =>
                /\ HasDataset(final_data', GroupOf(records[i]), ProfileSigs[j])
                /\ final_data'.groups[GroupOf(records[i])][ProfileSigs[j]].x
                      = <<cfg.num_x_points>>]_vars


\* the place of a step in a batch
StepNo(step) ==
    CASE step = "summary" -> 1
      [] step = "gas" -> 2
      [] step = "log" -> 3
      [] step = "compute" -> 4
      [] step = "check" -> 5
      [] step = "write" -> 6

\* the SQL phases the configuration switches on
SqlSteps ==
    (IF Len(cfg.sql_sig_names) > 0 THEN {"summary"} ELSE {})
        \cup (IF cfg.include_gas_valve_info THEN {"gas"} ELSE {})
        \cup (IF cfg.include_log_info THEN {"log"} ELSE {})

LoggedBefore(i, entry) == \E j \in 1..(i - 1) : oplog[j] = entry

\* C9: the steps of the run are taken in one linear order: within a batch
\* the enabled SQL phases in the order summary, gas, log, then the
\* computation, then the crash check, then the write; a later batch does
\* nothing before the write of the batch before it; batches go down in
\* shot number.
C9_LinearOrder ==
    /\ \A i \in DOMAIN oplog :
          /\ oplog[i][1] \in 1..Len(subshots)
          /\ oplog[i][2] \in SqlSteps \cup {"compute", "check", "write"}
          /\ oplog[i][2] = "compute" =>
                \A st \in SqlSteps : LoggedBefore(i, <<oplog[i][1], st>>)
          /\ oplog[i][2] = "check" => i > 1 /\ oplog[i - 1] = <<oplog[i][1], "compute">>
          /\ oplog[i][2] = "write" => i > 1 /\ oplog[i - 1] = <<oplog[i][1], "check">>
    /\ \A i \in 1..(Len(oplog) - 1) :
          \/ /\ oplog[i + 1][1] = oplog[i][1]
             /\ StepNo(oplog[i][2]) < StepNo(oplog[i + 1][2])
          \/ /\ oplog[i + 1][1] = oplog[i][1] + 1
             /\ oplog[i][2] = "write"
    /\ oplog # <<>> => oplog[1][1] = 1
    /\ \A a \in DOMAIN subshots : \A b \in DOMAIN subshots :
          a < b => \A i \in DOMAIN subshots[a] : \A j \in DOMAIN subshots[b] :
                      subshots[a][i] >= subshots[b][j]

\* two batches done with every SQL phase switched on
C9_Witness ==
    /\ pc = "done"
    /\ SqlSteps = {"summary", "gas", "log"}
    /\ Len(oplog) = 12
    /\ oplog[6] = <<1, "write">>
    /\ oplog[7] = <<2, "summary">>

\* C10: every batch is computed with compute_ray and numparts =
\* num_processes when num_processes > 1 and with compute_serial otherwise;
\* with num_processes > 1 the three thread variables are "1" from before
\* the first batch on; the computation of a batch leaves the file as it is.
C10_ParallelismOnly ==
    /\ [](/\ \A i \in DOMAIN computed :
                computed[i] = IF cfg.num_processes > 1
                              THEN <<"compute_ray", cfg.num_processes>>
                              ELSE <<"compute_serial", 0>>
          /\ (cfg.num_processes > 1 /\ pc # "configure") =>
                \A v \in ThreadVars : environ[v] = "1")
    /\ [][pc = "compute" => final_data' = final_data]_vars

\* a parallel run that has computed two batches and written them
C10_Witness ==
    /\ pc = "done"
    /\ cfg.num_processes > 1
    /\ Len(computed) >= 2
    /\ computed[1][1] = "compute_ray"
    /\ \E g \in DOMAIN final_data.groups :
          \E n \in DOMAIN final_data.groups[g] : final_data.groups[g][n].k = "ts"


\* the names of the groups of the shots of the list
ShotGroups(shotlist) == {Str(shotlist[i]) : i \in DOMAIN shotlist}

\* C11: with overwrite_shots the step before the first batch deletes
\* exactly the groups of the shots of all_shots and leaves the other groups
\* and the shared datasets as they are; without it no step before the first
\* batch deletes a group.
C11_OverwriteDeletesShotGroups ==
    /\ [](pc = "overwrite" => oplog = <<>> /\ records = <<>>)
    /\ [][pc = "overwrite" =>
            IF cfg.overwrite_shots
            THEN /\ DOMAIN final_data'.groups
                       = DOMAIN final_data.groups \ ShotGroups(all_shots)
                 /\ \A g \in DOMAIN final_data'.groups :
                       final_data'.groups[g] = final_data.groups[g]
                 /\ final_data'.top = final_data.top
            ELSE final_data' = final_data]_vars
    /\ [][(pc \in {"configure", "startup", "overwrite", "subshots"}
            /\ ~cfg.overwrite_shots) => final_data'.groups = final_data.groups]_vars

\* the file held a group of every shot: the group of shot 2 is gone, the
\* group of shot 1 is the one of the earlier run
C11_Witness ==
    /\ pc = "subshots"
    /\ cfg.overwrite_shots
    /\ Range(all_shots) = {2}
    /\ DOMAIN final_data.groups = {"1"}
    /\ final_data.groups["1"] = OldProfiles


\* the datasets of the shot groups that a step created or changed
WrittenNames(before, after) ==
    {n \in UNION {DOMAIN after.groups[g] : g \in DOMAIN after.groups} :
        \E g \in DOMAIN after.groups :
            /\ n \in DOMAIN after.groups[g]
            /\ ~(HasDataset(before, g, n) /\ before.groups[g][n] = after.groups[g][n])}

\* the keys a record holds before the keep and needed_sigs does not name
IntermediateKeys == FetchKeys \cup {"standard_time"}

NoIntermediateKeys(fd) ==
    \A g \in DOMAIN fd.groups : DOMAIN fd.groups[g] \cap IntermediateKeys = {}

\* the names the combined-gas block of the write may create
CombinedNames == IF CombinesGas(cfg) THEN Range(cfg.combined_gas_types) ELSE {}

\* C12 as stated: every dataset written by the time-based write of a batch
\* has a name of needed_sigs, and no intermediate key is ever in a group.
C12_OnlyNeededSigsWritten ==
    /\ [][pc = "write" =>
            WrittenNames(final_data, final_data') \subseteq Range(needed_sigs)]_vars
    /\ [](NoIntermediateKeys(final_data))

\* C12 amended: every dataset written by the time-based write of a batch has
\* a name of needed_sigs or, when the combined-gas block runs, of
\* combined_gas_types; no intermediate key is ever in a group.
C12_OnlyNeededOrCombinedWritten ==
    /\ [][pc = "write" =>
            WrittenNames(final_data, final_data')
                \subseteq Range(needed_sigs) \cup CombinedNames]_vars
    /\ [](NoIntermediateKeys(final_data))

\* a batch written with a summed gas next to the kept signals
C12_Witness ==
    /\ pc \in {"summary", "done"}
    /\ which_shot >= 2
    /\ \E g \in DOMAIN final_data.groups :
          /\ "D_tot" \in DOMAIN final_data.groups[g]
          /\ final_data.groups[g]["D_tot"].k = "sum"
          /\ "temp_EFIT01" \in DOMAIN final_data.groups[g]
          /\ final_data.groups[g]["temp_EFIT01"].k = "ts"


\* the group of the shot holds a dataset written by the time-based write
HasTimebased(fd, shot) ==
    /\ HasGroup(fd, Str(shot))
    /\ \E n \in DOMAIN fd.groups[Str(shot)] : fd.groups[Str(shot)][n].k = "ts"

\* the shots of the batches before the current one
EarlierShots == UNION {Range(subshots[b]) : b \in 1..(which_shot - 1)}

\* C13: when a record of the batch carries the crash signature the check
\* stops the run and leaves the file as it is, and nothing is written after
\* it: no shot of the batch gets a time-based dataset from this batch, the
\* datasets of the earlier batches stay.
C13_CrashWritesNothing ==
    /\ [][(pc = "check" /\ \E i \in DOMAIN records : HasCrash(records[i]))
            => (pc' = "broken" /\ final_data' = final_data)]_vars
    /\ [][pc # "broken"]_vars
    /\ [](pc = "broken" =>
            \A i \in DOMAIN shots :
                shots[i] \notin EarlierShots => ~HasTimebased(final_data, shots[i]))
    /\ [][pc = "check" =>
            \A s \in EarlierShots : HasTimebased(final_data', s) = HasTimebased(final_data, s)]_vars

\* a batch stopped by its second record; its first record has no error
C13_Witness ==
    /\ pc = "broken"
    /\ Len(records) = 2
    /\ DOMAIN records[1]["errors"] = {}
    /\ HasCrash(records[2])
    /\ records[1]["shot"] # records[2]["shot"]
    /\ ~HasTimebased(final_data, records[1]["shot"])

\* a run stopped in its second batch, the first batch written
C13_EarlierBatchKept ==
    /\ pc = "broken"
    /\ which_shot = 2
    /\ \E s \in EarlierShots : HasTimebased(final_data, s)


\* the records of the batch that belong to group g and hold key n
Holders(recs, g, n) ==
    {i \in DOMAIN recs : GroupOf(recs[i]) = g /\ n \in WrittenKeys(recs[i])}

\* C14: the write of a batch does not fail on the keys of its records; a
\* key of a record ends as a dataset with the value of the (last) record
\* of the shot that holds it, whether or not the group held a dataset of
\* that name; a dataset the group held whose name is no key of a record of
\* the shot is left as it was.
C14_WriteReplacesExisting ==
    [][pc = "write" =>
        /\ ~CombinesGas(cfg) => pc' # "exception"
        /\ pc' # "exception" =>
              \A i \in DOMAIN records : \A n \in WrittenKeys(records[i]) :
                  LET g == GroupOf(records[i])
                  IN  /\ HasDataset(final_data', g, n)
                      /\ final_data'.groups[g][n]
                            = records[Max(Holders(records, g, n))][n]
        /\ \A g \in DOMAIN final_data.groups : \A n \in DOMAIN final_data.groups[g] :
              Holders(records, g, n) = {} =>
                  /\ HasDataset(final_data', g, n)
                  /\ final_data'.groups[g][n] = final_data.groups[g][n]]_vars

\* a group of an earlier run after the write: the profile replaced, the
\* log datasets as they were
C14_Witness ==
    /\ pc \in {"summary", "done"}
    /\ which_shot >= 2
    /\ ~cfg.overwrite_shots
    /\ HasDataset(final_data, "1", "temp_EFIT01")
    /\ final_data.groups["1"]["temp_EFIT01"].k = "ts"
    /\ HasDataset(final_data, "1", "text_sql")
    /\ final_data.groups["1"]["text_sql"] = Old("text_sql")

\* a group whose summary dataset was written earlier in the batch, after
\* the write
C14_SqlKept ==
    /\ pc \in {"summary", "done"}
    /\ which_shot >= 2
    /\ HasDataset(final_data, "1", "temp_EFIT01")
    /\ final_data.groups["1"]["temp_EFIT01"].k = "ts"
    /\ HasDataset(final_data, "1", "betan_sql")
    /\ final_data.groups["1"]["betan_sql"] = Num(1)


SqlName(sig) == sig \o "_sql"

\* the shots of the rows
RowShots(rows) == {rows[i]["shot"] : i \in DOMAIN rows}

\* dataset n of group g is after the step what it was before it
SameDataset(before, after, g, n) ==
    /\ HasDataset(after, g, n) = HasDataset(before, g, n)
    /\ HasDataset(before, g, n) => after.groups[g][n] = before.groups[g][n]

\* C15: the summary phase gives the group of every row's shot, for every
\* name s of sql_sig_names, the dataset s_sql: NaN for None, the string
\* form for a datetime, the value itself otherwise; a shot of the batch
\* without a row gets no summary dataset.
C15_SummaryDatasets ==
    [][(pc = "summary" /\ Len(cfg.sql_sig_names) > 0) =>
        LET rows == Query(db.summaries, shots)
        IN  /\ \A i \in DOMAIN rows : \A j \in DOMAIN cfg.sql_sig_names :
                  LET g == Str(rows[i]["shot"])
                      v == rows[i][cfg.sql_sig_names[j]]
                      n == SqlName(cfg.sql_sig_names[j])
                  IN  /\ HasDataset(final_data', g, n)
                      /\ final_data'.groups[g][n] =
                            IF v.k = "None" THEN [k |-> "nan"]
                            ELSE IF v.k = "datetime" THEN [k |-> "text", v |-> v.v]
                            ELSE v
            /\ \A sh \in Range(shots) \ RowShots(rows) :
                  \A j \in DOMAIN cfg.sql_sig_names :
                      SameDataset(final_data, final_data', Str(sh),
                                  SqlName(cfg.sql_sig_names[j]))]_vars


\* the rows of the shot, in the order the query returned them
ShotRows(rows, shot) == SelectSeq(rows, LAMBDA row : row["shot"] = shot)

\* every shot of the batch has its group, and for every column the dataset
\* col_sql whose entry i is the string of the column in the shot's row i
ListsWritten(fd, batch, rows, sigs) ==
    \A b \in DOMAIN batch : \A j \in DOMAIN sigs :
        LET g == Str(batch[b])
            rs == ShotRows(rows, batch[b])
        IN  /\ HasDataset(fd, g, SqlName(sigs[j]))
            /\ fd.groups[g][SqlName(sigs[j])] =
                  [k |-> "list",
                   items |-> [i \in DOMAIN rs |->
                                IF rs[i][sigs[j]].k = "None" THEN "None"
                                ELSE rs[i][sigs[j]].v]]

\* C16: with include_gas_valve_info the gas phase gives every shot of the
\* batch, with or without rows, a group with gas_sql and valve_sql, each the
\* strings of the shot's rows in the order returned, so of one length and
\* row by row; with include_log_info the log phase does the same with
\* text_sql, topic_sql and username_sql.
C16_ListDatasets ==
    /\ [][(pc = "gas" /\ cfg.include_gas_valve_info) =>
            ListsWritten(final_data', shots, Query(db.gasvalves, shots),
                         <<"gas", "valve">>)]_vars
    /\ [][(pc = "log" /\ cfg.include_log_info) =>
            ListsWritten(final_data', shots, Query(db.entries, shots),
                         <<"text", "topic", "username">>)]_vars

=============================================================================
